---- MODULE Spec2Model ----
(***************************************************************************)
(* A model of the workout-logging application: the workouts table, the     *)
(* data helpers that query it, and the server actions and pages that call  *)
(* the helpers on behalf of the authenticated caller.                      *)
(*                                                                         *)
(* Values.                                                                 *)
(*  - A JavaScript string that only its length and its white space matter  *)
(*    for (a workout name) is a run-length encoded sequence of runs        *)
(*    [c |-> character, n |-> count]; <<>> is the empty string.            *)
(*  - A Date is its time value in milliseconds since the epoch; the model  *)
(*    keeps every date in January 1970, where the calendar fields are      *)
(*    year 1970, month 0 and date 1 + (time \div one day).  NaN is the     *)
(*    time value of an Invalid Date.                                       *)
(*  - An ISO string is the tuple of the calendar fields it spells.         *)
(*  - A JavaScript object is a record; an omitted property is a field the  *)
(*    record does not have.                                                *)
(*  - `T | null` results of the data helpers are sequences of at most one  *)
(*    row; <<>> is null.                                                   *)
(***************************************************************************)
EXTENDS Integers, Sequences, FiniteSets, TLC

VARIABLES
    workouts,          \* the rows of table workouts
    workoutExercises,  \* the rows of table workout_exercises
    sets,              \* the rows of table sets
    last,              \* the request served last: caller, input, helper calls, outcome
    dashboard,         \* DashboardClient: its state (useState) in the browser
    fetches,           \* the getWorkoutsForDate calls DashboardClient has made
    forms,             \* EditWorkoutForm and CreateWorkoutClient: their state
    requests           \* the requests that are served concurrently

vars == <<workouts, workoutExercises, sets, last, dashboard, fetches, forms, requests>>

\* the state of the browser and of the requests on their way
client == <<dashboard, fetches, forms, requests>>

----------------------------------------------------------------------------
(* Bounds of the model *)

\* at most this many workouts are ever inserted
MaxWorkouts == 2
\* dates range over the days 0 .. MaxDay after the epoch
MaxDay == 1

(* Program constants *)

MinNameLen == 1
MaxNameLen == 100
MinWorkoutIdLen == 1

----------------------------------------------------------------------------
(* Identity *)

Users == {"user_a", "user_b"}

\* auth() yields { userId: null } when nobody is signed in
Null == "null"

Sessions == Users \cup {Null}

----------------------------------------------------------------------------
(* Strings *)

Str(c, n) == IF n = 0 THEN <<>> ELSE <<[c |-> c, n |-> n]>>

RECURSIVE StrLen(_)
StrLen(s) == IF s = <<>> THEN 0 ELSE Head(s).n + StrLen(Tail(s))

IsSpace(c) == c = " "

RECURSIVE TrimStart(_)
TrimStart(s) ==
    IF s = <<>> THEN <<>>
    ELSE IF IsSpace(Head(s).c) THEN TrimStart(Tail(s)) ELSE s

RECURSIVE TrimEnd(_)
TrimEnd(s) ==
    IF s = <<>> THEN <<>>
    ELSE IF IsSpace(s[Len(s)].c) THEN TrimEnd(SubSeq(s, 1, Len(s) - 1)) ELSE s

\* String.prototype.trim
Trim(s) == TrimEnd(TrimStart(s))

----------------------------------------------------------------------------
(* Dates *)

MsPerSecond == 1000
MsPerMinute == 60 * MsPerSecond
MsPerHour   == 60 * MsPerMinute
MsPerDay    == 24 * MsPerHour

EpochYear == 1970

\* the time value of an Invalid Date
NaN == -1

IsValidDate(t) == t # NaN

\* Date.UTC(year, monthIndex, day, hours, minutes, seconds, ms), for January 1970
DateUTC(y, mo, d, h, mi, s, ms) ==
    IF y = NaN \/ mo = NaN \/ d = NaN THEN NaN
    ELSE (d - 1) * MsPerDay + h * MsPerHour + mi * MsPerMinute + s * MsPerSecond + ms

getUTCFullYear(t) == IF IsValidDate(t) THEN EpochYear ELSE NaN
getUTCMonth(t)    == IF IsValidDate(t) THEN 0 ELSE NaN
getUTCDate(t)     == IF IsValidDate(t) THEN (t \div MsPerDay) + 1 ELSE NaN
getUTCHours(t)        == (t % MsPerDay) \div MsPerHour
getUTCMinutes(t)      == (t % MsPerHour) \div MsPerMinute
getUTCSeconds(t)      == (t % MsPerMinute) \div MsPerSecond
getUTCMilliseconds(t) == t % MsPerSecond

\* Date.prototype.toISOString: YYYY-MM-DDTHH:mm:ss.sssZ (the month is 1-based)
toISOString(t) ==
    <<getUTCFullYear(t), getUTCMonth(t) + 1, getUTCDate(t),
      getUTCHours(t), getUTCMinutes(t), getUTCSeconds(t), getUTCMilliseconds(t)>>

\* new Date(isoString): the instant the string names, or an Invalid Date when a
\* field of the string is out of range (as the month of "1970-13-01T00:00:00.000Z")
NewDate(iso) ==
    IF /\ iso[2] \in 1..12 /\ iso[3] \in 1..31 /\ iso[4] \in 0..23
       /\ iso[5] \in 0..59 /\ iso[6] \in 0..59 /\ iso[7] \in 0..999
    THEN DateUTC(iso[1], iso[2] - 1, iso[3], iso[4], iso[5], iso[6], iso[7])
    ELSE NaN

\* the first and the last millisecond of each day, for the days 0 .. MaxDay
Timestamps == {d * MsPerDay + o : d \in 0..MaxDay, o \in {0, MsPerDay - 1}}

----------------------------------------------------------------------------
(* Validation schemas (zod) *)

Has(data, field) == field \in DOMAIN data

\* z.string().min(lo).max(hi) at `path`
StringIssues(data, path, lo, hi) ==
    IF ~Has(data, path) THEN <<[path |-> path, code |-> "invalid_type"]>>
    ELSE IF StrLen(data[path]) < lo THEN <<[path |-> path, code |-> "too_small"]>>
    ELSE IF StrLen(data[path]) > hi THEN <<[path |-> path, code |-> "too_big"]>>
    ELSE <<>>

\* z.string().min(lo) at `path`, for an identifier (a plain string)
IdIssues(data, path, lo) ==
    IF ~Has(data, path) THEN <<[path |-> path, code |-> "invalid_type"]>>
    ELSE IF Len(data[path]) < lo THEN <<[path |-> path, code |-> "too_small"]>>
    ELSE <<>>

\* z.date() at `path`
DateIssues(data, path) ==
    IF ~Has(data, path) THEN <<[path |-> path, code |-> "invalid_type"]>>
    ELSE IF ~IsValidDate(data[path]) THEN <<[path |-> path, code |-> "invalid_date"]>>
    ELSE <<>>

\* createWorkoutSchema without .max(100)
createWorkoutSchema_NoMax(data) ==
    StringIssues(data, "name", MinNameLen, StrLen(data.name)) \o DateIssues(data, "startedAt")

\* the issues createWorkoutSchema.parse(data) throws with; <<>> when it returns
createWorkoutSchema(data) ==
    StringIssues(data, "name", MinNameLen, MaxNameLen) \o DateIssues(data, "startedAt")

\* updateWorkoutSchema whose workoutId is z.string(), without .min(1)
updateWorkoutSchema_AnyId(data) ==
    IdIssues(data, "workoutId", 0)
        \o StringIssues(data, "name", MinNameLen, MaxNameLen)
        \o DateIssues(data, "startedAt")

\* the issues updateWorkoutSchema.parse(data) throws with; <<>> when it returns
updateWorkoutSchema(data) ==
    IdIssues(data, "workoutId", MinWorkoutIdLen)
        \o StringIssues(data, "name", MinNameLen, MaxNameLen)
        \o DateIssues(data, "startedAt")

\* what parse returns: the declared keys only (z.object strips unknown keys)
Strip(data, keys) == [k \in (DOMAIN data) \cap keys |-> data[k]]

----------------------------------------------------------------------------
(* Query results *)

\* the sequences that list the elements of S once each, ordered by Key:
\* rows of equal key come in whichever order the database yields them
SortedSeqs(S, Key(_), descending) ==
    {q \in [1..Cardinality(S) -> S] :
        /\ \A i, j \in 1..Cardinality(S) : i # j => q[i] # q[j]
        /\ \A i, j \in 1..Cardinality(S) :
              i < j => IF descending THEN Key(q[i]) >= Key(q[j])
                                     ELSE Key(q[i]) <= Key(q[j])}

\* the sequences of length Len(choices) whose i-th element is in choices[i]
RECURSIVE SeqProduct(_)
SeqProduct(choices) ==
    IF choices = <<>> THEN {<<>>}
    ELSE {<<h>> \o t : h \in Head(choices), t \in SeqProduct(Tail(choices))}

SetNumberOf(s) == s.setNumber
OrderOf(e) == e.order
StartedAtOf(w) == w.startedAt

\* with: { sets: true }, without orderBy: the sets come in whichever order
WithSets_Unordered(e) ==
    {[id |-> e.id, workoutId |-> e.workoutId, exerciseName |-> e.exerciseName,
      order |-> e.order, sets |-> ss] :
        ss \in SortedSeqs({s \in sets : s.workoutExerciseId = e.id}, LAMBDA s : 0, FALSE)}

\* with: { sets: { orderBy: [asc(sets.setNumber)] } }
WithSets(e) ==
    {[id |-> e.id, workoutId |-> e.workoutId, exerciseName |-> e.exerciseName,
      order |-> e.order, sets |-> ss] :
        ss \in SortedSeqs({s \in sets : s.workoutExerciseId = e.id}, SetNumberOf, FALSE)}

\* with: { exercises: { with: { sets } } }, without orderBy on the exercises
WithExercises_Unordered(w) ==
    {[id |-> w.id, userId |-> w.userId, name |-> w.name, startedAt |-> w.startedAt,
      completedAt |-> w.completedAt, exercises |-> es] :
        es \in UNION {SeqProduct([i \in 1..Len(q) |-> WithSets(q[i])]) :
                        q \in SortedSeqs({e \in workoutExercises : e.workoutId = w.id},
                                         LAMBDA e : 0, FALSE)}}

\* with: { exercises: { orderBy: [asc(workoutExercises.order)], with: { sets } } }
WithExercises(w) ==
    {[id |-> w.id, userId |-> w.userId, name |-> w.name, startedAt |-> w.startedAt,
      completedAt |-> w.completedAt, exercises |-> es] :
        es \in UNION {SeqProduct([i \in 1..Len(q) |-> WithSets(q[i])]) :
                        q \in SortedSeqs({e \in workoutExercises : e.workoutId = w.id},
                                         OrderOf, FALSE)}}

\* db.query.workouts.findMany({ where, orderBy: [desc(workouts.startedAt)], with })
FindManyWorkouts(Where(_)) ==
    UNION {SeqProduct([i \in 1..Len(q) |-> WithExercises(q[i])]) :
             q \in SortedSeqs({w \in workouts : Where(w)}, StartedAtOf, TRUE)}

\* db.query.workouts.findFirst({ where, with }): the row, or undefined
FindFirstWorkout(Where(_)) ==
    IF {w \in workouts : Where(w)} = {} THEN {<<>>}
    ELSE {<<h>> : h \in UNION {WithExercises(w) : w \in {v \in workouts : Where(v)}}}

----------------------------------------------------------------------------
(* Data helpers (@/data/workouts) *)

\* a data helper's result: the table after the call and the value it returns
\* (a sequence of rows; <<>> is null or the empty list)

\* getWorkoutsByDate without eq(workouts.userId, userId)
getWorkoutsByDate_NoOwnerFilter(userId, date) ==
    LET startOfDay == DateUTC(getUTCFullYear(date), getUTCMonth(date), getUTCDate(date),
                              0, 0, 0, 0)
        endOfDay   == DateUTC(getUTCFullYear(date), getUTCMonth(date), getUTCDate(date),
                              23, 59, 59, 999)
    IN  FindManyWorkouts(LAMBDA w : /\ w.startedAt >= startOfDay
                                    /\ w.startedAt <= endOfDay)

\* getWorkoutsByDate with lt for lte: the last millisecond of the day is left out
getWorkoutsByDate_ExclusiveEnd(userId, date) ==
    LET startOfDay == DateUTC(getUTCFullYear(date), getUTCMonth(date), getUTCDate(date),
                              0, 0, 0, 0)
        endOfDay   == DateUTC(getUTCFullYear(date), getUTCMonth(date), getUTCDate(date),
                              23, 59, 59, 999)
    IN  FindManyWorkouts(LAMBDA w : /\ w.userId = userId
                                    /\ w.startedAt >= startOfDay
                                    /\ w.startedAt < endOfDay)

\* getWorkoutsByDate without orderBy: the rows come in whichever order
getWorkoutsByDate_Unordered(userId, date) ==
    LET startOfDay == DateUTC(getUTCFullYear(date), getUTCMonth(date), getUTCDate(date),
                              0, 0, 0, 0)
        endOfDay   == DateUTC(getUTCFullYear(date), getUTCMonth(date), getUTCDate(date),
                              23, 59, 59, 999)
        rows       == {w \in workouts : /\ w.userId = userId
                                         /\ w.startedAt >= startOfDay
                                         /\ w.startedAt <= endOfDay}
    IN  UNION {SeqProduct([i \in 1..Len(q) |-> WithExercises(q[i])]) :
                 q \in SortedSeqs(rows, LAMBDA w : 0, TRUE)}

\* getWorkoutsByDate whose window is the 24 hours from `date` on
getWorkoutsByDate_FromInstant(userId, date) ==
    LET startOfDay == date
        endOfDay   == date + MsPerDay - 1
    IN  FindManyWorkouts(LAMBDA w : /\ w.userId = userId
                                    /\ w.startedAt >= startOfDay
                                    /\ w.startedAt <= endOfDay)

\* getWorkoutsByDate yields one of these sequences
getWorkoutsByDate(userId, date) ==
    LET startOfDay == DateUTC(getUTCFullYear(date), getUTCMonth(date), getUTCDate(date),
                              0, 0, 0, 0)
        endOfDay   == DateUTC(getUTCFullYear(date), getUTCMonth(date), getUTCDate(date),
                              23, 59, 59, 999)
    IN  FindManyWorkouts(LAMBDA w : /\ w.userId = userId
                                    /\ w.startedAt >= startOfDay
                                    /\ w.startedAt <= endOfDay)

\* getWorkout without eq(workouts.userId, userId)
getWorkout_ByIdOnly(workoutId, userId) ==
    FindFirstWorkout(LAMBDA w : w.id = workoutId)

\* getWorkout yields <<>> (null) or <<the workout>>
getWorkout(workoutId, userId) ==
    FindFirstWorkout(LAMBDA w : w.id = workoutId /\ w.userId = userId)

\* getWorkouts without eq(workouts.userId, userId)
getWorkouts_AllUsers(userId) ==
    FindManyWorkouts(LAMBDA w : TRUE)

\* getWorkouts yields one of these sequences
getWorkouts(userId) ==
    FindManyWorkouts(LAMBDA w : w.userId = userId)

\* the identifier the database generates for the next row of workouts: one that
\* no row has (the first of w1, w2, ... not in use)
NewId ==
    LET used(n) == \E w \in workouts : w.id = "w" \o ToString(n)
    IN  "w" \o ToString(CHOOSE n \in 1..(Cardinality(workouts) + 1) :
                            /\ ~used(n)
                            /\ \A m \in 1..(n - 1) : used(m))

\* createWorkout({ userId, name, startedAt }): inserts the row and returns it
createWorkout(data) ==
    LET row == [id |-> NewId, userId |-> data.userId, name |-> data.name,
                startedAt |-> data.startedAt, completedAt |-> <<>>]
    IN  [table |-> workouts \cup {row},
         ret   |-> <<[id |-> row.id, userId |-> row.userId, name |-> row.name,
                      startedAt |-> row.startedAt, completedAt |-> row.completedAt,
                      exercises |-> <<>>]>>]

\* updateWorkout that sets the name and leaves startedAt as it is
updateWorkout_NameOnly(workoutId, userId, patch) ==
    LET matching == {w \in workouts : w.id = workoutId /\ w.userId = userId}
        Set(w) == [w EXCEPT !.name = IF Has(patch, "name") THEN patch.name ELSE @]
    IN  [table |-> (workouts \ matching) \cup {Set(w) : w \in matching},
         ret   |-> IF matching = {} THEN <<>>
                   ELSE <<Set(CHOOSE w \in matching : TRUE)>>]

\* updateWorkout whose where clause names the owner alone: every workout of the
\* owner is set, the one of that id is returned
updateWorkout_AllOfUser(workoutId, userId, patch) ==
    LET matching == {w \in workouts : w.id = workoutId /\ w.userId = userId}
        touched  == IF matching = {} THEN {} ELSE {w \in workouts : w.userId = userId}
        Set(w) == [w EXCEPT !.name = IF Has(patch, "name") THEN patch.name ELSE @,
                            !.startedAt = IF Has(patch, "startedAt")
                                          THEN patch.startedAt ELSE @]
    IN  [table |-> (workouts \ touched) \cup {Set(w) : w \in touched},
         ret   |-> IF matching = {} THEN <<>>
                   ELSE <<Set(CHOOSE w \in matching : TRUE)>>]

\* updateWorkout(workoutId, userId, { name?, startedAt? }): sets the supplied
\* fields of the row of that id and owner and returns it, or returns nothing
updateWorkout(workoutId, userId, patch) ==
    LET matching == {w \in workouts : w.id = workoutId /\ w.userId = userId}
        Set(w) == [w EXCEPT !.name = IF Has(patch, "name") THEN patch.name ELSE @,
                            !.startedAt = IF Has(patch, "startedAt")
                                          THEN patch.startedAt ELSE @]
    IN  [table |-> (workouts \ matching) \cup {Set(w) : w \in matching},
         ret   |-> IF matching = {} THEN <<>>
                   ELSE <<Set(CHOOSE w \in matching : TRUE)>>]

----------------------------------------------------------------------------
(* Requests *)

\* the record of one call of a data helper
Call(fn, args, threw, ret) == [fn |-> fn, args |-> args, threw |-> threw, ret |-> ret]

\* the request is served: `calls` are the data helpers it called, in order
Served(op, userId, data, calls, result) ==
    last' = [op |-> op, auth |-> userId, data |-> data, calls |-> calls, result |-> result]

Throw(error)   == [kind |-> "throw", error |-> error]
Redirect(url)  == [kind |-> "redirect", url |-> url]
Failure(error) == [kind |-> "return", success |-> FALSE, error |-> error]

\* a request without arguments
NoInput == [input |-> "none"]

\* redirect('/')
HomeUrl == [path |-> "/"]

\* `/dashboard?date=${startedAt.toISOString()}`
DashboardUrl(startedAt) == [path |-> "/dashboard", date |-> toISOString(startedAt)]

StoreUnchanged == UNCHANGED <<workouts, workoutExercises, sets>>

----------------------------------------------------------------------------
(* Server actions and pages.  userId is what auth() yields for the caller;  *)
(* dbOk is whether the database answers the helper's query or throws.       *)

\* getWorkoutsForDate without the check of userId
getWorkoutsForDate_NoAuthCheck(userId, dateString, dbOk) ==
    /\ StoreUnchanged
    /\ LET date == NewDate(dateString)
       IN  IF ~dbOk
           THEN Served("getWorkoutsForDate", userId, [dateString |-> dateString],
                       <<Call("getWorkoutsByDate", [userId |-> userId, date |-> date], TRUE, <<>>)>>,
                       Throw("StoreFailure"))
           ELSE IF ~IsValidDate(date)
           THEN Served("getWorkoutsForDate", userId, [dateString |-> dateString],
                       <<Call("getWorkoutsByDate", [userId |-> userId, date |-> date], TRUE, <<>>)>>,
                       Throw("RangeError"))
           ELSE \E rows \in getWorkoutsByDate(userId, date) :
                   Served("getWorkoutsForDate", userId, [dateString |-> dateString],
                          <<Call("getWorkoutsByDate", [userId |-> userId, date |-> date], FALSE, rows)>>,
                          [kind |-> "return", value |-> rows])

\* app/dashboard/actions.ts.  The date goes to getWorkoutsByDate as new Date made
\* it; the query cannot be run with an Invalid Date, and the call throws
getWorkoutsForDate(userId, dateString, dbOk) ==
    /\ StoreUnchanged
    /\ IF userId = Null
       THEN Served("getWorkoutsForDate", userId, [dateString |-> dateString], <<>>, Throw("Unauthorized"))
       ELSE LET date == NewDate(dateString)
            IN  IF ~dbOk
                THEN Served("getWorkoutsForDate", userId, [dateString |-> dateString],
                            <<Call("getWorkoutsByDate", [userId |-> userId, date |-> date], TRUE, <<>>)>>,
                            Throw("StoreFailure"))
                ELSE IF ~IsValidDate(date)
                THEN Served("getWorkoutsForDate", userId, [dateString |-> dateString],
                            <<Call("getWorkoutsByDate", [userId |-> userId, date |-> date], TRUE, <<>>)>>,
                            Throw("RangeError"))
                ELSE \E rows \in getWorkoutsByDate(userId, date) :
                        Served("getWorkoutsForDate", userId, [dateString |-> dateString],
                               <<Call("getWorkoutsByDate", [userId |-> userId, date |-> date], FALSE, rows)>>,
                               [kind |-> "return", value |-> rows])

\* createWorkoutAction that takes the owner from the input when the input has one
createWorkoutAction_ClientUserId(userId, data, dbOk) ==
    IF userId = Null
    THEN StoreUnchanged
         /\ Served("createWorkoutAction", userId, data, <<>>, Failure("Unauthorized"))
    ELSE IF createWorkoutSchema(data) # <<>>
    THEN StoreUnchanged
         /\ Served("createWorkoutAction", userId, data, <<>>,
                   [kind |-> "return", success |-> FALSE, error |-> "Validation failed",
                    issues |-> createWorkoutSchema(data)])
    ELSE LET args == [userId |-> IF Has(data, "userId") THEN data.userId ELSE userId,
                      name |-> data.name, startedAt |-> data.startedAt]
         IN  IF ~dbOk
             THEN StoreUnchanged
                  /\ Served("createWorkoutAction", userId, data,
                            <<Call("createWorkout", args, TRUE, <<>>)>>,
                            Failure("Failed to create workout"))
             ELSE /\ Cardinality(workouts) < MaxWorkouts
                  /\ workouts' = createWorkout(args).table
                  /\ UNCHANGED <<workoutExercises, sets>>
                  /\ Served("createWorkoutAction", userId, data,
                            <<Call("createWorkout", args, FALSE, createWorkout(args).ret)>>,
                            [kind |-> "return", success |-> TRUE,
                             workout |-> createWorkout(args).ret[1],
                             redirectUrl |-> DashboardUrl(data.startedAt)])

\* createWorkoutAction that stores the day of startedAt, not the instant
createWorkoutAction_DateOnly(userId, data, dbOk) ==
    IF userId = Null
    THEN StoreUnchanged
         /\ Served("createWorkoutAction", userId, data, <<>>, Failure("Unauthorized"))
    ELSE IF createWorkoutSchema(data) # <<>>
    THEN StoreUnchanged
         /\ Served("createWorkoutAction", userId, data, <<>>,
                   [kind |-> "return", success |-> FALSE, error |-> "Validation failed",
                    issues |-> createWorkoutSchema(data)])
    ELSE LET validated == Strip(data, {"name", "startedAt"})
             args == [userId |-> userId, name |-> validated.name,
                      startedAt |-> DateUTC(getUTCFullYear(validated.startedAt),
                                            getUTCMonth(validated.startedAt),
                                            getUTCDate(validated.startedAt), 0, 0, 0, 0)]
         IN  IF ~dbOk
             THEN StoreUnchanged
                  /\ Served("createWorkoutAction", userId, data,
                            <<Call("createWorkout", args, TRUE, <<>>)>>,
                            Failure("Failed to create workout"))
             ELSE /\ Cardinality(workouts) < MaxWorkouts
                  /\ workouts' = createWorkout(args).table
                  /\ UNCHANGED <<workoutExercises, sets>>
                  /\ Served("createWorkoutAction", userId, data,
                            <<Call("createWorkout", args, FALSE, createWorkout(args).ret)>>,
                            [kind |-> "return", success |-> TRUE,
                             workout |-> createWorkout(args).ret[1],
                             redirectUrl |-> DashboardUrl(validated.startedAt)])

\* createWorkoutAction that parses its input before it asks who the caller is
createWorkoutAction_ValidateFirst(userId, data, dbOk) ==
    IF createWorkoutSchema(data) # <<>>
    THEN StoreUnchanged
         /\ Served("createWorkoutAction", userId, data, <<>>,
                   [kind |-> "return", success |-> FALSE, error |-> "Validation failed",
                    issues |-> createWorkoutSchema(data)])
    ELSE IF userId = Null
    THEN StoreUnchanged
         /\ Served("createWorkoutAction", userId, data, <<>>, Failure("Unauthorized"))
    ELSE LET validated == Strip(data, {"name", "startedAt"})
             args == [userId |-> userId, name |-> validated.name,
                      startedAt |-> validated.startedAt]
         IN  IF ~dbOk
             THEN StoreUnchanged
                  /\ Served("createWorkoutAction", userId, data,
                            <<Call("createWorkout", args, TRUE, <<>>)>>,
                            Failure("Failed to create workout"))
             ELSE /\ Cardinality(workouts) < MaxWorkouts
                  /\ workouts' = createWorkout(args).table
                  /\ UNCHANGED <<workoutExercises, sets>>
                  /\ Served("createWorkoutAction", userId, data,
                            <<Call("createWorkout", args, FALSE, createWorkout(args).ret)>>,
                            [kind |-> "return", success |-> TRUE,
                             workout |-> createWorkout(args).ret[1],
                             redirectUrl |-> DashboardUrl(validated.startedAt)])

\* app/dashboard/workout/new/actions.ts
createWorkoutAction(userId, data, dbOk) ==
    IF userId = Null
    THEN StoreUnchanged
         /\ Served("createWorkoutAction", userId, data, <<>>, Failure("Unauthorized"))
    ELSE IF createWorkoutSchema(data) # <<>>
    THEN StoreUnchanged
         /\ Served("createWorkoutAction", userId, data, <<>>,
                   [kind |-> "return", success |-> FALSE, error |-> "Validation failed",
                    issues |-> createWorkoutSchema(data)])
    ELSE LET validated == Strip(data, {"name", "startedAt"})
             args == [userId |-> userId, name |-> validated.name,
                      startedAt |-> validated.startedAt]
         IN  IF ~dbOk
             THEN StoreUnchanged
                  /\ Served("createWorkoutAction", userId, data,
                            <<Call("createWorkout", args, TRUE, <<>>)>>,
                            Failure("Failed to create workout"))
             ELSE /\ Cardinality(workouts) < MaxWorkouts
                  /\ workouts' = createWorkout(args).table
                  /\ UNCHANGED <<workoutExercises, sets>>
                  /\ Served("createWorkoutAction", userId, data,
                            <<Call("createWorkout", args, FALSE, createWorkout(args).ret)>>,
                            [kind |-> "return", success |-> TRUE,
                             workout |-> createWorkout(args).ret[1],
                             redirectUrl |-> DashboardUrl(validated.startedAt)])

\* the createWorkoutAction that ends in redirect()
createWorkoutActionRedirect(userId, data, dbOk) ==
    IF userId = Null
    THEN StoreUnchanged
         /\ Served("createWorkoutActionRedirect", userId, data, <<>>, Failure("Unauthorized"))
    ELSE IF createWorkoutSchema(data) # <<>>
    THEN StoreUnchanged
         /\ Served("createWorkoutActionRedirect", userId, data, <<>>,
                   [kind |-> "return", success |-> FALSE, error |-> "Validation failed",
                    issues |-> createWorkoutSchema(data)])
    ELSE LET validated == Strip(data, {"name", "startedAt"})
             args == [userId |-> userId, name |-> validated.name,
                      startedAt |-> validated.startedAt]
         IN  IF ~dbOk
             THEN StoreUnchanged
                  /\ Served("createWorkoutActionRedirect", userId, data,
                            <<Call("createWorkout", args, TRUE, <<>>)>>,
                            Throw("StoreFailure"))
             ELSE /\ Cardinality(workouts) < MaxWorkouts
                  /\ workouts' = createWorkout(args).table
                  /\ UNCHANGED <<workoutExercises, sets>>
                  /\ Served("createWorkoutActionRedirect", userId, data,
                            <<Call("createWorkout", args, FALSE, createWorkout(args).ret)>>,
                            Redirect(DashboardUrl(validated.startedAt)))

\* createWorkout(formData) whose workout is completed as it is created
createWorkoutForm_Completed(userId, formData) ==
    /\ StoreUnchanged
    /\ IF userId = Null
       THEN Served("createWorkoutForm", userId, formData, <<>>, Throw("Unauthorized"))
       ELSE IF \/ ~Has(formData, "workoutName")
               \/ formData.workoutName = <<>>
               \/ Trim(formData.workoutName) = <<>>
       THEN Served("createWorkoutForm", userId, formData, <<>>,
                   Throw("Workout name is required"))
       ELSE Served("createWorkoutForm", userId, formData, <<>>,
                   [kind |-> "redirect", url |-> [path |-> "/workouts/:id"],
                    workout |-> [name |-> Trim(formData.workoutName), userId |-> userId,
                                 completedAt |-> <<0>>, exercises |-> <<>>]])

\* app/workouts/create/actions.ts: createWorkout(formData), which saves nothing
createWorkoutForm(userId, formData) ==
    /\ StoreUnchanged
    /\ IF userId = Null
       THEN Served("createWorkoutForm", userId, formData, <<>>, Throw("Unauthorized"))
       ELSE IF \/ ~Has(formData, "workoutName")
               \/ formData.workoutName = <<>>
               \/ Trim(formData.workoutName) = <<>>
       THEN Served("createWorkoutForm", userId, formData, <<>>,
                   Throw("Workout name is required"))
       ELSE Served("createWorkoutForm", userId, formData, <<>>,
                   [kind |-> "redirect", url |-> [path |-> "/workouts/:id"],
                    workout |-> [name |-> Trim(formData.workoutName), userId |-> userId,
                                 completedAt |-> <<>>, exercises |-> <<>>]])

\* updateWorkoutAction that passes the owner of the row for the caller
updateWorkoutAction_AnyOwner(userId, data, dbOk) ==
    IF userId = Null
    THEN StoreUnchanged
         /\ Served("updateWorkoutAction", userId, data, <<>>, Failure("Unauthorized"))
    ELSE IF updateWorkoutSchema(data) # <<>>
    THEN StoreUnchanged
         /\ Served("updateWorkoutAction", userId, data, <<>>,
                   [kind |-> "return", success |-> FALSE, error |-> "Validation failed",
                    issues |-> updateWorkoutSchema(data)])
    ELSE LET validated  == Strip(data, {"workoutId", "name", "startedAt"})
             workoutId  == validated.workoutId
             updateData == Strip(validated, {"name", "startedAt"})
             owner      == IF \E w \in workouts : w.id = workoutId
                           THEN (CHOOSE w \in workouts : w.id = workoutId).userId
                           ELSE userId
             done       == updateWorkout(workoutId, owner, updateData)
             args       == [workoutId |-> workoutId, userId |-> owner, data |-> updateData]
         IN  IF ~dbOk
             THEN StoreUnchanged
                  /\ Served("updateWorkoutAction", userId, data,
                            <<Call("updateWorkout", args, TRUE, <<>>)>>,
                            Failure("Failed to update workout"))
             ELSE /\ workouts' = done.table
                  /\ UNCHANGED <<workoutExercises, sets>>
                  /\ IF done.ret = <<>>
                     THEN Served("updateWorkoutAction", userId, data,
                                 <<Call("updateWorkout", args, FALSE, done.ret)>>,
                                 Failure("Workout not found"))
                     ELSE Served("updateWorkoutAction", userId, data,
                                 <<Call("updateWorkout", args, FALSE, done.ret)>>,
                                 [kind |-> "return", success |-> TRUE,
                                  workout |-> done.ret[1],
                                  redirectUrl |-> DashboardUrl(validated.startedAt)])

\* updateWorkoutAction without `if (!workout)`
updateWorkoutAction_NoAbsentCheck(userId, data, dbOk) ==
    IF userId = Null
    THEN StoreUnchanged
         /\ Served("updateWorkoutAction", userId, data, <<>>, Failure("Unauthorized"))
    ELSE IF updateWorkoutSchema(data) # <<>>
    THEN StoreUnchanged
         /\ Served("updateWorkoutAction", userId, data, <<>>,
                   [kind |-> "return", success |-> FALSE, error |-> "Validation failed",
                    issues |-> updateWorkoutSchema(data)])
    ELSE LET validated  == Strip(data, {"workoutId", "name", "startedAt"})
             workoutId  == validated.workoutId
             updateData == Strip(validated, {"name", "startedAt"})
             done       == updateWorkout(workoutId, userId, updateData)
             args       == [workoutId |-> workoutId, userId |-> userId, data |-> updateData]
         IN  IF ~dbOk
             THEN StoreUnchanged
                  /\ Served("updateWorkoutAction", userId, data,
                            <<Call("updateWorkout", args, TRUE, <<>>)>>,
                            Failure("Failed to update workout"))
             ELSE /\ workouts' = done.table
                  /\ UNCHANGED <<workoutExercises, sets>>
                  /\ Served("updateWorkoutAction", userId, data,
                            <<Call("updateWorkout", args, FALSE, done.ret)>>,
                            IF done.ret = <<>>
                            THEN [kind |-> "return", success |-> TRUE,
                                  redirectUrl |-> DashboardUrl(validated.startedAt)]
                            ELSE [kind |-> "return", success |-> TRUE,
                                  workout |-> done.ret[1],
                                  redirectUrl |-> DashboardUrl(validated.startedAt)])

\* app/dashboard/workout/[workoutId]/actions.ts
updateWorkoutAction(userId, data, dbOk) ==
    IF userId = Null
    THEN StoreUnchanged
         /\ Served("updateWorkoutAction", userId, data, <<>>, Failure("Unauthorized"))
    ELSE IF updateWorkoutSchema(data) # <<>>
    THEN StoreUnchanged
         /\ Served("updateWorkoutAction", userId, data, <<>>,
                   [kind |-> "return", success |-> FALSE, error |-> "Validation failed",
                    issues |-> updateWorkoutSchema(data)])
    ELSE LET validated  == Strip(data, {"workoutId", "name", "startedAt"})
             workoutId  == validated.workoutId
             updateData == Strip(validated, {"name", "startedAt"})
             done       == updateWorkout(workoutId, userId, updateData)
             args       == [workoutId |-> workoutId, userId |-> userId, data |-> updateData]
         IN  IF ~dbOk
             THEN StoreUnchanged
                  /\ Served("updateWorkoutAction", userId, data,
                            <<Call("updateWorkout", args, TRUE, <<>>)>>,
                            Failure("Failed to update workout"))
             ELSE /\ workouts' = done.table
                  /\ UNCHANGED <<workoutExercises, sets>>
                  /\ IF done.ret = <<>>
                     THEN Served("updateWorkoutAction", userId, data,
                                 <<Call("updateWorkout", args, FALSE, done.ret)>>,
                                 Failure("Workout not found"))
                     ELSE Served("updateWorkoutAction", userId, data,
                                 <<Call("updateWorkout", args, FALSE, done.ret)>>,
                                 [kind |-> "return", success |-> TRUE,
                                  workout |-> done.ret[1],
                                  redirectUrl |-> DashboardUrl(validated.startedAt)])

\* app/dashboard/workout/new/page.tsx
NewWorkoutPage(userId) ==
    /\ StoreUnchanged
    /\ IF userId = Null
       THEN Served("NewWorkoutPage", userId, NoInput, <<>>, Redirect(HomeUrl))
       ELSE Served("NewWorkoutPage", userId, NoInput, <<>>,
                   [kind |-> "render", component |-> "WorkoutForm"])

\* app/workouts/create/page.tsx
CreateWorkoutPage(userId) ==
    /\ StoreUnchanged
    /\ IF userId = Null
       THEN Served("CreateWorkoutPage", userId, NoInput, <<>>, Redirect(HomeUrl))
       ELSE Served("CreateWorkoutPage", userId, NoInput, <<>>,
                   [kind |-> "render", component |-> "CreateWorkoutClient"])

\* app/dashboard/workout/[workoutId]/page.tsx
EditWorkoutPage(userId, params, dbOk) ==
    /\ StoreUnchanged
    /\ IF userId = Null
       THEN Served("EditWorkoutPage", userId, params, <<>>, Redirect(HomeUrl))
       ELSE IF ~dbOk
       THEN Served("EditWorkoutPage", userId, params,
                   <<Call("getWorkout", [workoutId |-> params.workoutId, userId |-> userId], TRUE, <<>>)>>,
                   Throw("StoreFailure"))
       ELSE \E workout \in getWorkout(params.workoutId, userId) :
               Served("EditWorkoutPage", userId, params,
                      <<Call("getWorkout", [workoutId |-> params.workoutId, userId |-> userId], FALSE, workout)>>,
                      IF workout = <<>>
                      THEN [kind |-> "notFound"]
                      ELSE [kind |-> "render", component |-> "EditWorkoutForm",
                            workoutId |-> workout[1].id,
                            defaultName |-> workout[1].name,
                            defaultStartedAt |-> workout[1].startedAt])

----------------------------------------------------------------------------
(* The requests the model issues *)

EmptyName   == Str("a", 0)
BlankName   == Str(" ", 3)
ShortName   == Str("a", 1)
LongestName == Str("b", MaxNameLen)
TooLongName == Str("b", MaxNameLen + 1)

NameInputs == {EmptyName, BlankName, ShortName, LongestName, TooLongName}

\* the identifiers the database may generate, and one it never does
WorkoutIds == {"w" \o ToString(n) : n \in 1..(MaxWorkouts + 1)}

\* "1970-13-01T00:00:00.000Z": a string that is not a date
NotADate == <<1970, 13, 1, 0, 0, 0, 0>>

DateStrings == {toISOString(t) : t \in Timestamps} \cup {NotADate}

CreateInputs ==
    {[name |-> n, startedAt |-> t] : n \in {ShortName, LongestName}, t \in Timestamps}
    \cup {[name |-> n, startedAt |-> 0] : n \in {EmptyName, BlankName, TooLongName}}
    \cup {[name |-> ShortName, startedAt |-> NaN], [name |-> ShortName], [startedAt |-> 0]}
    \cup {[name |-> ShortName, startedAt |-> 0, userId |-> u] : u \in Users}

FormInputs == {[workoutName |-> n] : n \in NameInputs} \cup {[other |-> EmptyName]}

UpdateInputs ==
    {[workoutId |-> i, name |-> LongestName, startedAt |-> t] :
        i \in WorkoutIds, t \in Timestamps}
    \cup {[workoutId |-> i, name |-> ShortName, startedAt |-> 0] : i \in WorkoutIds}
    \cup {[workoutId |-> "w1", name |-> n, startedAt |-> 0] :
            n \in {EmptyName, BlankName, TooLongName}}
    \cup {[workoutId |-> "", name |-> ShortName, startedAt |-> 0],
          [workoutId |-> "w1", name |-> ShortName, startedAt |-> NaN],
          [name |-> ShortName, startedAt |-> 0]}
    \cup {[workoutId |-> i, name |-> LongestName] : i \in WorkoutIds}
    \cup {[workoutId |-> i, startedAt |-> MsPerDay] : i \in WorkoutIds}

PageParams == {[workoutId |-> i] : i \in WorkoutIds}

----------------------------------------------------------------------------
(* Specification *)

\* no request is being served
Idle == [op |-> "none", auth |-> Null, data |-> NoInput, calls |-> <<>>,
         result |-> [kind |-> "none"]]

\* DashboardClient is not rendered
NoDashboard == [mounted |-> FALSE, user |-> Null, tz |-> 0, selectedDate |-> 0,
                workouts |-> <<>>, isLoading |-> FALSE]

\* a form as it is rendered: useState(false), useState<string | null>(null);
\* `shown` is the isSubmitting its controls were rendered with, `calls` are the
\* action calls on their way, `left` is set once the browser has been sent to
\* another page
NewForm == [isSubmitting |-> FALSE, shown |-> FALSE, error |-> <<>>, calls |-> <<>>,
            left |-> FALSE]

Init ==
    /\ workouts = {}
    /\ workoutExercises = {}
    /\ sets = {}
    /\ last = Idle
    /\ dashboard = NoDashboard
    /\ fetches = <<>>
    /\ forms = [edit |-> NewForm, create |-> NewForm]
    /\ requests = [before |-> {}, list |-> <<>>]

CallGetWorkoutsForDate ==
    /\ last = Idle
    /\ \E userId \in Sessions, dateString \in DateStrings, dbOk \in BOOLEAN :
        getWorkoutsForDate(userId, dateString, dbOk)
    /\ UNCHANGED client

CallCreateWorkoutAction ==
    /\ last = Idle
    /\ \E userId \in Sessions, data \in CreateInputs, dbOk \in BOOLEAN :
        createWorkoutAction(userId, data, dbOk)
    /\ UNCHANGED client

CallCreateWorkoutActionRedirect ==
    /\ last = Idle
    /\ \E userId \in Sessions, data \in CreateInputs, dbOk \in BOOLEAN :
        createWorkoutActionRedirect(userId, data, dbOk)
    /\ UNCHANGED client

CallCreateWorkoutForm ==
    /\ last = Idle
    /\ \E userId \in Sessions, formData \in FormInputs :
        createWorkoutForm(userId, formData)
    /\ UNCHANGED client

CallUpdateWorkoutAction ==
    /\ last = Idle
    /\ \E userId \in Sessions, data \in UpdateInputs, dbOk \in BOOLEAN :
        updateWorkoutAction(userId, data, dbOk)
    /\ UNCHANGED client

RequestNewWorkoutPage ==
    /\ last = Idle
    /\ \E userId \in Sessions : NewWorkoutPage(userId)
    /\ UNCHANGED client

RequestCreateWorkoutPage ==
    /\ last = Idle
    /\ \E userId \in Sessions : CreateWorkoutPage(userId)
    /\ UNCHANGED client

RequestEditWorkoutPage ==
    /\ last = Idle
    /\ \E userId \in Sessions, params \in PageParams, dbOk \in BOOLEAN :
        EditWorkoutPage(userId, params, dbOk)
    /\ UNCHANGED client

\* the outcome reaches the caller; the server takes the next request
Respond ==
    /\ last # Idle
    /\ last' = Idle
    /\ StoreUnchanged
    /\ UNCHANGED client

Next ==
    \/ CallGetWorkoutsForDate
    \/ CallCreateWorkoutAction
    \/ CallCreateWorkoutActionRedirect
    \/ CallCreateWorkoutForm
    \/ CallUpdateWorkoutAction
    \/ RequestNewWorkoutPage
    \/ RequestCreateWorkoutPage
    \/ RequestEditWorkoutPage
    \/ Respond

Spec == Init /\ [][Next]_vars

----------------------------------------------------------------------------
(* The data layer on its own: the tables with their foreign keys, and the    *)
(* data helpers called directly.                                             *)

\* rows of workout_exercises and of sets the model stores at most
MaxExercises == 2
MaxSets == 2

\* order: integer('order'), set_number: integer('set_number')
Orders == {0, 1}
SetNumbers == {1, 2}

\* the instant the workouts of the data layer start at
DataTimestamps == {0}

\* the identifiers of the workouts of the data layer; w3 is of no workout
DataWorkoutIds == {"w1", "w2"}

\* the identifier the database generates for the next row of workout_exercises,
\* and of sets: the first of e1, e2, ... (s1, s2, ...) that no row has
NewExerciseId ==
    LET used(n) == \E e \in workoutExercises : e.id = "e" \o ToString(n)
    IN  "e" \o ToString(CHOOSE n \in 1..(Cardinality(workoutExercises) + 1) :
                            /\ ~used(n)
                            /\ \A m \in 1..(n - 1) : used(m))

NewSetId ==
    LET used(n) == \E x \in sets : x.id = "s" \o ToString(n)
    IN  "s" \o ToString(CHOOSE n \in 1..(Cardinality(sets) + 1) :
                            /\ ~used(n)
                            /\ \A m \in 1..(n - 1) : used(m))

\* db.insert(workouts) through createWorkout
InsertWorkout ==
    /\ last = Idle
    /\ NewId \in DataWorkoutIds
    /\ \E userId \in Users, startedAt \in DataTimestamps :
          workouts' = createWorkout([userId |-> userId, name |-> ShortName,
                                     startedAt |-> startedAt]).table
    /\ UNCHANGED <<workoutExercises, sets, last>>
    /\ UNCHANGED client

\* db.insert(workoutExercises): workout_id references workouts.id
InsertWorkoutExercise ==
    /\ last = Idle
    /\ Cardinality(workoutExercises) < MaxExercises
    /\ \E w \in workouts, order \in Orders :
          workoutExercises' = workoutExercises \cup
                  {[id |-> NewExerciseId, workoutId |-> w.id, exerciseName |-> Str("x", 1),
                    order |-> order]}
    /\ UNCHANGED <<workouts, sets, last>>
    /\ UNCHANGED client

\* db.insert(sets): workout_exercise_id references workoutExercises.id
InsertSet ==
    /\ last = Idle
    /\ Cardinality(sets) < MaxSets
    /\ \E e \in workoutExercises, setNumber \in SetNumbers :
          sets' = sets \cup
                  {[id |-> NewSetId, workoutExerciseId |-> e.id, setNumber |-> setNumber,
                    reps |-> 10]}
    /\ UNCHANGED <<workouts, workoutExercises, last>>
    /\ UNCHANGED client

\* deleteWorkout under a schema whose sets do not cascade: the exercises of the
\* workout go, their sets stay
deleteWorkout_SetsStay(workoutId) ==
    LET gone   == {w \in workouts : w.id = workoutId}
        goneEx == {e \in workoutExercises : \E w \in gone : e.workoutId = w.id}
    IN  [workouts |-> workouts \ gone,
         workoutExercises |-> workoutExercises \ goneEx,
         sets |-> sets]

\* deleteWorkout(workoutId): db.delete(workouts).where(eq(workouts.id, workoutId));
\* onDelete: 'cascade' removes the exercises of the workout and their sets
deleteWorkout(workoutId) ==
    LET gone     == {w \in workouts : w.id = workoutId}
        goneEx   == {e \in workoutExercises : \E w \in gone : e.workoutId = w.id}
        goneSets == {x \in sets : \E e \in goneEx : x.workoutExerciseId = e.id}
    IN  [workouts |-> workouts \ gone,
         workoutExercises |-> workoutExercises \ goneEx,
         sets |-> sets \ goneSets]

DeleteWorkout ==
    /\ last = Idle
    /\ \E workoutId \in DataWorkoutIds :
          LET done == deleteWorkout(workoutId)
          IN  /\ workouts' = done.workouts
              /\ workoutExercises' = done.workoutExercises
              /\ sets' = done.sets
    /\ UNCHANGED last
    /\ UNCHANGED client

ReadWorkoutsByDate ==
    /\ last = Idle
    /\ StoreUnchanged
    /\ \E userId \in Users, date \in DataTimestamps :
          \E rows \in getWorkoutsByDate(userId, date) :
             Served("getWorkoutsByDate", userId, [date |-> date],
                    <<Call("getWorkoutsByDate", [userId |-> userId, date |-> date],
                           FALSE, rows)>>,
                    [kind |-> "return", value |-> rows])
    /\ UNCHANGED client

ReadWorkout ==
    /\ last = Idle
    /\ StoreUnchanged
    /\ \E workoutId \in DataWorkoutIds \cup {"w3"}, userId \in Users :
          \E workout \in getWorkout(workoutId, userId) :
             Served("getWorkout", userId, [workoutId |-> workoutId],
                    <<Call("getWorkout", [workoutId |-> workoutId, userId |-> userId],
                           FALSE, workout)>>,
                    [kind |-> "return", value |-> workout])
    /\ UNCHANGED client

ReadWorkouts ==
    /\ last = Idle
    /\ StoreUnchanged
    /\ \E userId \in Users :
          \E rows \in getWorkouts(userId) :
             Served("getWorkouts", userId, NoInput,
                    <<Call("getWorkouts", [userId |-> userId], FALSE, rows)>>,
                    [kind |-> "return", value |-> rows])
    /\ UNCHANGED client

DataNext ==
    \/ InsertWorkout
    \/ InsertWorkoutExercise
    \/ InsertSet
    \/ DeleteWorkout
    \/ ReadWorkoutsByDate
    \/ ReadWorkout
    \/ ReadWorkouts
    \/ Respond

DataSpec == Init /\ [][DataNext]_vars

----------------------------------------------------------------------------
(* Specification of the edit form: workouts that have exercises and sets     *)
(* are edited through updateWorkoutAction.                                   *)

\* the instants the workouts of the edit form start at: midnight of two days
EditTimestamps == {0, MsPerDay}

\* what EditWorkoutForm.onSubmit sends: { workoutId, ...data }
EditInputs ==
    {[workoutId |-> i, name |-> LongestName, startedAt |-> t] :
        i \in DataWorkoutIds \cup {"w3"}, t \in EditTimestamps}

\* db.insert(workouts) through createWorkout
EditInsertWorkout ==
    /\ last = Idle
    /\ NewId \in DataWorkoutIds
    /\ \E userId \in Users, startedAt \in EditTimestamps :
          workouts' = createWorkout([userId |-> userId, name |-> ShortName,
                                     startedAt |-> startedAt]).table
    /\ UNCHANGED <<workoutExercises, sets, last>>
    /\ UNCHANGED client

\* db.insert(workoutExercises): the next exercise of a workout, after those it has
EditInsertWorkoutExercise ==
    /\ last = Idle
    /\ Cardinality(workoutExercises) < MaxExercises
    /\ \E w \in workouts :
          workoutExercises' = workoutExercises \cup
                  {[id |-> NewExerciseId, workoutId |-> w.id, exerciseName |-> Str("x", 1),
                    order |-> Cardinality({e \in workoutExercises : e.workoutId = w.id})]}
    /\ UNCHANGED <<workouts, sets, last>>
    /\ UNCHANGED client

\* db.insert(sets): the next set of an exercise, after those it has
EditInsertSet ==
    /\ last = Idle
    /\ Cardinality(sets) < MaxSets
    /\ \E e \in workoutExercises :
          sets' = sets \cup
                  {[id |-> NewSetId, workoutExerciseId |-> e.id,
                    setNumber |-> 1 + Cardinality({x \in sets : x.workoutExerciseId = e.id}),
                    reps |-> 10]}
    /\ UNCHANGED <<workouts, workoutExercises, last>>
    /\ UNCHANGED client

\* EditWorkoutForm.onSubmit: updateWorkoutAction({ workoutId, ...data })
SubmitEditWorkoutForm ==
    /\ last = Idle
    /\ \E userId \in Sessions, data \in EditInputs, dbOk \in BOOLEAN :
          updateWorkoutAction(userId, data, dbOk)
    /\ UNCHANGED client

EditNext ==
    \/ EditInsertWorkout
    \/ EditInsertWorkoutExercise
    \/ EditInsertSet
    \/ SubmitEditWorkoutForm
    \/ Respond

EditSpec == Init /\ [][EditNext]_vars

----------------------------------------------------------------------------
(* Specification of the dashboard in the browser: DashboardClient fetches    *)
(* the workouts of the selected date, and the responses arrive in any order. *)

\* getWorkoutsForDate calls DashboardClient makes at most
MaxFetches == 2

\* the offsets of the browser's time zone from UTC in minutes (local = UTC +
\* offset): New York, UTC, Tokyo
TzOffsets == {-300, 0, 540}

\* Date.prototype.getFullYear, getMonth, getDate: the calendar fields in the
\* browser's time zone, for local times of January 1970
LocalTime(t, tz) == t + tz * MsPerMinute
getFullYear(t, tz) == IF IsValidDate(t) THEN getUTCFullYear(LocalTime(t, tz)) ELSE NaN
getMonth(t, tz)    == IF IsValidDate(t) THEN getUTCMonth(LocalTime(t, tz)) ELSE NaN
getDate(t, tz)     == IF IsValidDate(t) THEN getUTCDate(LocalTime(t, tz)) ELSE NaN

\* new Date(Date.UTC(selectedDate.getFullYear(), selectedDate.getMonth(),
\*                   selectedDate.getDate()))
normalizedDate(selectedDate, tz) ==
    DateUTC(getFullYear(selectedDate, tz), getMonth(selectedDate, tz),
            getDate(selectedDate, tz), 0, 0, 0, 0)

\* the instants the workouts of the dashboard start at: 02:00 and 22:00 UTC of
\* the second day
DashTimestamps == {MsPerDay + 2 * MsPerHour, MsPerDay + 22 * MsPerHour}

DashCreateInputs == {[name |-> ShortName, startedAt |-> t] : t \in DashTimestamps}

\* the days of the calendar the user can pick: the second and the third day
CalendarDays == {1, 2}

\* the Date the calendar hands to handleDateSelect: midnight of the day in the
\* browser's time zone
CalendarDate(day, tz) == day * MsPerDay - tz * MsPerMinute

\* useEffect(..., [selectedDate]), up to the await: setIsLoading(true) and the
\* call of getWorkoutsForDate(normalizedDate.toISOString())
fetchWorkouts(shown, selectedDate) ==
    /\ dashboard' = [shown EXCEPT !.selectedDate = selectedDate, !.isLoading = TRUE]
    /\ fetches' = Append(fetches,
                         [dateString |-> toISOString(normalizedDate(selectedDate, shown.tz)),
                          status |-> "sent", outcome |-> [kind |-> "none"]])

\* DashboardClient({ initialWorkouts, initialDateString }) is rendered and its
\* effect runs
DashboardClient(user, tz, initialWorkouts, initialDateString) ==
    fetchWorkouts([mounted |-> TRUE, user |-> user, tz |-> tz,
                   selectedDate |-> NewDate(initialDateString),
                   workouts |-> initialWorkouts, isLoading |-> FALSE],
                  NewDate(initialDateString))

\* createWorkoutAction, called from any browser
DashCreateWorkout ==
    /\ last = Idle
    /\ \E userId \in Users, data \in DashCreateInputs, dbOk \in BOOLEAN :
          createWorkoutAction(userId, data, dbOk)
    /\ UNCHANGED client

\* the user opens /dashboard: the page renders DashboardClient with the workouts
\* of the date it was asked for
OpenDashboard ==
    /\ last = Idle
    /\ ~dashboard.mounted
    /\ \E user \in Users, tz \in TzOffsets, t \in DashTimestamps :
          \E initialWorkouts \in getWorkoutsByDate(user, t) :
             DashboardClient(user, tz, initialWorkouts, toISOString(t))
    /\ UNCHANGED <<workouts, workoutExercises, sets, last, forms, requests>>

\* the browser follows the redirectUrl of a successful createWorkoutAction:
\* /dashboard?date=<startedAt.toISOString()> renders DashboardClient for that date
FollowRedirectUrl ==
    /\ last.op = "createWorkoutAction"
    /\ last.result.kind = "return"
    /\ last.result.success
    /\ ~dashboard.mounted
    /\ \E tz \in TzOffsets :
          \E initialWorkouts \in getWorkoutsByDate(last.auth, NewDate(last.result.redirectUrl.date)) :
             DashboardClient(last.auth, tz, initialWorkouts, last.result.redirectUrl.date)
    /\ last' = Idle
    /\ UNCHANGED <<workouts, workoutExercises, sets, forms, requests>>

\* handleDateSelect(date): setSelectedDate(date), and the effect runs
SelectDate ==
    /\ dashboard.mounted
    /\ Len(fetches) < MaxFetches
    /\ \E day \in CalendarDays :
          fetchWorkouts(dashboard, CalendarDate(day, dashboard.tz))
    /\ UNCHANGED <<workouts, workoutExercises, sets, last, forms, requests>>

\* the server serves one of the calls that are on their way
ServeFetch ==
    /\ last = Idle
    /\ \E i \in 1..Len(fetches), dbOk \in BOOLEAN :
          /\ fetches[i].status = "sent"
          /\ getWorkoutsForDate(dashboard.user, fetches[i].dateString, dbOk)
          /\ fetches' = [fetches EXCEPT ![i] = [@ EXCEPT !.status = "served",
                                                         !.outcome = last'.result]]
    /\ UNCHANGED <<dashboard, forms, requests>>

\* the await of fetchWorkouts ends: setWorkouts(data), or the catch; and the
\* finally: setIsLoading(false)
ReceiveFetch ==
    /\ \E i \in 1..Len(fetches) :
          /\ fetches[i].status = "served"
          /\ fetches' = [fetches EXCEPT ![i] = [@ EXCEPT !.status = "done"]]
          /\ dashboard' = [dashboard EXCEPT
                               !.workouts = IF fetches[i].outcome.kind = "return"
                                            THEN fetches[i].outcome.value ELSE @,
                               !.isLoading = FALSE]
    /\ UNCHANGED <<workouts, workoutExercises, sets, last, forms, requests>>

DashNext ==
    \/ DashCreateWorkout
    \/ OpenDashboard
    \/ FollowRedirectUrl
    \/ SelectDate
    \/ ServeFetch
    \/ ReceiveFetch
    \/ Respond

DashSpec == Init /\ [][DashNext]_vars

----------------------------------------------------------------------------
(* Specification of the forms in the browser: EditWorkoutForm and            *)
(* CreateWorkoutClient submit, the server serves the call, the outcome       *)
(* arrives.                                                                  *)

\* what EditWorkoutForm submits: values formSchema accepts, for a workout of the
\* store or for one that is gone
EditFormInputs ==
    {[workoutId |-> i, name |-> n, startedAt |-> MsPerDay] :
        i \in {"w1", "w3"}, n \in {LongestName, BlankName}}

\* what CreateWorkoutClient submits: the input is required
CreateFormInputs == {[workoutName |-> n] : n \in {ShortName, BlankName}}

\* a call of a server action that is on its way
SentCall(data) == [data |-> data, status |-> "sent", outcome |-> [kind |-> "none"]]

\* onSubmit / handleSubmit up to the await
Submitting(form, data) ==
    [form EXCEPT !.isSubmitting = TRUE, !.error = <<>>, !.calls = Append(@, SentCall(data))]

\* EditWorkoutForm.onSubmit after the await
EditWorkoutFormSettled(form, outcome) ==
    IF outcome.kind = "return"
    THEN IF outcome.success /\ Has(outcome, "redirectUrl")
         THEN [form EXCEPT !.left = TRUE]
         ELSE IF ~outcome.success
         THEN [form EXCEPT !.error = <<outcome.error>>, !.isSubmitting = FALSE]
         ELSE form
    ELSE [form EXCEPT !.error = <<"An unexpected error occurred">>, !.isSubmitting = FALSE]

\* CreateWorkoutClient.handleSubmit after the await: the catch, or the browser
\* follows the redirect of the action
CreateWorkoutClientSettled(form, outcome) ==
    IF outcome.kind = "throw" THEN [form EXCEPT !.isSubmitting = FALSE]
    ELSE IF outcome.kind = "redirect" THEN [form EXCEPT !.left = TRUE]
    ELSE form

\* React renders the component with its state
Rendered(form) == [form EXCEPT !.shown = form.isSubmitting]

\* the submit button: disabled={isSubmitting}
CanSubmit(form) == ~form.shown /\ ~form.left

\* action calls one form has on their way at most
MaxCalls == 2

FormsUnchanged == UNCHANGED <<dashboard, fetches, requests>>

\* <form onSubmit={handleSubmit(onSubmit)}>: onSubmit runs in the event handler,
\* and React renders the state it set when the handler reaches its await
SubmitEdit ==
    /\ CanSubmit(forms.edit)
    /\ Len(forms.edit.calls) < MaxCalls
    /\ \E data \in EditFormInputs :
          forms' = [forms EXCEPT !.edit = Rendered(Submitting(@, data))]
    /\ UNCHANGED <<workouts, workoutExercises, sets, last>>
    /\ FormsUnchanged

\* <form action={handleSubmit}>: React runs a function given as a form's action
\* inside a transition, and holds the state updates of an async action back until
\* the action has ended: setIsSubmitting(true) is not rendered while the call is
\* on its way
SubmitCreate ==
    /\ CanSubmit(forms.create)
    /\ Len(forms.create.calls) < MaxCalls
    /\ \E formData \in CreateFormInputs :
          forms' = [forms EXCEPT !.create = Submitting(@, formData)]
    /\ UNCHANGED <<workouts, workoutExercises, sets, last>>
    /\ FormsUnchanged

\* the server serves a call of updateWorkoutAction
ServeEdit ==
    /\ last = Idle
    /\ \E i \in 1..Len(forms.edit.calls), userId \in Sessions, dbOk \in BOOLEAN :
          /\ forms.edit.calls[i].status = "sent"
          /\ updateWorkoutAction(userId, forms.edit.calls[i].data, dbOk)
          /\ forms' = [forms EXCEPT !.edit.calls[i] =
                           [@ EXCEPT !.status = "served", !.outcome = last'.result]]
    /\ FormsUnchanged

\* the server serves a call of createWorkout(formData)
ServeCreate ==
    /\ last = Idle
    /\ \E i \in 1..Len(forms.create.calls), userId \in Sessions :
          /\ forms.create.calls[i].status = "sent"
          /\ createWorkoutForm(userId, forms.create.calls[i].data)
          /\ forms' = [forms EXCEPT !.create.calls[i] =
                           [@ EXCEPT !.status = "served", !.outcome = last'.result]]
    /\ FormsUnchanged

\* a call does not reach the server, or its response is lost: the await throws
LoseCall ==
    /\ \E f \in {"edit", "create"} :
          \E i \in 1..Len(forms[f].calls) :
             /\ forms[f].calls[i].status = "sent"
             /\ forms' = [forms EXCEPT ![f].calls[i] =
                              [@ EXCEPT !.status = "served", !.outcome = Throw("fetch failed")]]
    /\ UNCHANGED <<workouts, workoutExercises, sets, last>>
    /\ FormsUnchanged

\* the seq without its i-th element
Without(seq, i) == SubSeq(seq, 1, i - 1) \o SubSeq(seq, i + 1, Len(seq))

\* the await of onSubmit ends
SettleEdit ==
    /\ \E i \in 1..Len(forms.edit.calls) :
          /\ forms.edit.calls[i].status = "served"
          /\ forms' = [forms EXCEPT !.edit =
                           Rendered(EditWorkoutFormSettled(
                                        [@ EXCEPT !.calls = Without(@, i)],
                                        forms.edit.calls[i].outcome))]
    /\ UNCHANGED <<workouts, workoutExercises, sets, last>>
    /\ FormsUnchanged

\* the await of handleSubmit ends
SettleCreate ==
    /\ \E i \in 1..Len(forms.create.calls) :
          /\ forms.create.calls[i].status = "served"
          /\ forms' = [forms EXCEPT !.create =
                           Rendered(CreateWorkoutClientSettled(
                                        [@ EXCEPT !.calls = Without(@, i)],
                                        forms.create.calls[i].outcome))]
    /\ UNCHANGED <<workouts, workoutExercises, sets, last>>
    /\ FormsUnchanged

FormNext ==
    \/ EditInsertWorkout
    \/ SubmitEdit
    \/ SubmitCreate
    \/ ServeEdit
    \/ ServeCreate
    \/ LoseCall
    \/ SettleEdit
    \/ SettleCreate
    \/ Respond

FormSpec == Init /\ [][FormNext]_vars

----------------------------------------------------------------------------
(* Specification of concurrent requests: createWorkoutAction and             *)
(* updateWorkoutAction calls of one user are served at the same time, each   *)
(* one step at a time: it arrives, its await of auth() ends, its await of    *)
(* the data helper ends.                                                     *)

\* requests that are served at the same time at most
MaxRequests == 2

ConcurrentCreateInputs == {[name |-> ShortName, startedAt |-> t] : t \in {0, MsPerDay}}

ConcurrentUpdateInputs ==
    {[workoutId |-> i, name |-> LongestName, startedAt |-> MsPerDay] : i \in DataWorkoutIds}
    \cup {[workoutId |-> i, name |-> BlankName, startedAt |-> 2 * MsPerDay] :
             i \in DataWorkoutIds}

\* a request that has arrived: `failed` is set when its statement failed in the
\* database
NewRequest(op, userId, data) ==
    [op |-> op, userId |-> userId, data |-> data, pc |-> "arrived", failed |-> FALSE]

RequestsUnchanged == UNCHANGED <<dashboard, fetches, forms>>

\* a workout that is in the store before the requests arrive
ConcurrentInsertWorkout ==
    /\ requests.list = <<>>
    /\ workouts = {}
    /\ \E userId \in Users :
          workouts' = createWorkout([userId |-> userId, name |-> ShortName,
                                     startedAt |-> 0]).table
    /\ UNCHANGED <<workoutExercises, sets, last, requests>>
    /\ RequestsUnchanged

\* a request of the user arrives at the server
Arrive ==
    /\ Len(requests.list) < MaxRequests
    /\ \E userId \in Users :
          /\ \A i \in 1..Len(requests.list) : requests.list[i].userId = userId
          /\ \/ \E data \in ConcurrentCreateInputs :
                   requests' = [before |-> IF requests.list = <<>> THEN workouts
                                           ELSE requests.before,
                                list |-> Append(requests.list,
                                                NewRequest("create", userId, data))]
             \/ \E data \in ConcurrentUpdateInputs :
                   requests' = [before |-> IF requests.list = <<>> THEN workouts
                                           ELSE requests.before,
                                list |-> Append(requests.list,
                                                NewRequest("update", userId, data))]
    /\ UNCHANGED <<workouts, workoutExercises, sets, last>>
    /\ RequestsUnchanged

\* const { userId } = await auth()
Authenticate ==
    /\ \E i \in 1..Len(requests.list) :
          /\ requests.list[i].pc = "arrived"
          /\ requests' = [requests EXCEPT !.list[i].pc = "authed"]
    /\ UNCHANGED <<workouts, workoutExercises, sets, last>>
    /\ RequestsUnchanged

\* an update that sets the name in one statement and startedAt in another
ConcurrentWrite_FieldByField(i, dbOk) ==
    LET r == requests.list[i]
    IN  IF r.op = "create"
        THEN /\ r.pc = "authed"
             /\ createWorkoutAction(r.userId, r.data, dbOk)
             /\ requests' = [requests EXCEPT !.list[i].pc = "done",
                                              !.list[i].failed = ~dbOk]
        ELSE /\ dbOk
             /\ r.pc \in {"authed", "named"}
             /\ workouts' = {IF w.id = r.data.workoutId /\ w.userId = r.userId
                              THEN IF r.pc = "authed"
                                   THEN [w EXCEPT !.name = r.data.name]
                                   ELSE [w EXCEPT !.startedAt = r.data.startedAt]
                              ELSE w : w \in workouts}
             /\ UNCHANGED <<workoutExercises, sets, last>>
             /\ requests' = [requests EXCEPT
                                 !.list[i].pc = IF r.pc = "authed" THEN "named" ELSE "done"]

\* the rest of the action: the input is validated and the data helper is
\* awaited, whose one statement the database runs at once
ConcurrentWrite(i, dbOk) ==
    LET r == requests.list[i]
    IN  /\ r.pc = "authed"
        /\ IF r.op = "create"
           THEN createWorkoutAction(r.userId, r.data, dbOk)
           ELSE updateWorkoutAction(r.userId, r.data, dbOk)
        /\ requests' = [requests EXCEPT !.list[i].pc = "done", !.list[i].failed = ~dbOk]

Write ==
    /\ \E i \in 1..Len(requests.list), dbOk \in BOOLEAN : ConcurrentWrite(i, dbOk)
    /\ RequestsUnchanged

ConcurrentNext ==
    \/ ConcurrentInsertWorkout
    \/ Arrive
    \/ Authenticate
    \/ Write

ConcurrentSpec == Init /\ [][ConcurrentNext]_vars

----------------------------------------------------------------------------
(* Properties *)

\* the calls of data helper fn the request served last made
CallsOf(fn) == {last.calls[i] : i \in {k \in 1..Len(last.calls) : last.calls[k].fn = fn}}

\* the UTC calendar day of a time value, counted from the epoch
DayOf(t) == t \div 86400000

\* C1: every workout getWorkoutsByDate(userId, date) returns is owned by userId,
\* whatever other users have stored on that day.
C1_OnlyOwnWorkoutsByDate ==
    \A c \in CallsOf("getWorkoutsByDate") :
        \A k \in 1..Len(c.ret) : c.ret[k].userId = c.args.userId

C1_Witness ==
    /\ last.op = "getWorkoutsForDate"
    /\ last.result.kind = "return"
    /\ Len(last.result.value) = 1
    /\ \E w \in workouts : /\ w.userId # last.auth
                           /\ DayOf(w.startedAt) = DayOf(NewDate(last.data.dateString))

\* C2: getWorkout(workoutId, userId) returns null when no workout has that id and
\* when the workout of that id belongs to another user, and the edit page answers
\* notFound in both cases.
C2_ForeignWorkoutIsAbsent ==
    ( /\ last.op = "EditWorkoutPage"
      /\ last.auth # Null
      /\ \A c \in CallsOf("getWorkout") : ~c.threw
      /\ \A w \in workouts : w.id = last.data.workoutId => w.userId # last.auth )
    => /\ \E c \in CallsOf("getWorkout") : c.args = [workoutId |-> last.data.workoutId, userId |-> last.auth]
       /\ \A c \in CallsOf("getWorkout") : c.ret = <<>>
       /\ last.result = [kind |-> "notFound"]

C2_Witness ==
    /\ last.op = "EditWorkoutPage"
    /\ last.auth # Null
    /\ last.result = [kind |-> "notFound"]
    /\ \E w \in workouts : w.id = last.data.workoutId /\ w.userId # last.auth

\* C3: a request leaves every workout that its caller does not own as it was, and
\* every row it inserts or changes is owned by its caller.
C3_WritesOnlyCallersWorkouts ==
    [][ /\ \A w \in workouts : w.userId # last'.auth => w \in workouts'
        /\ \A w \in workouts' \ workouts : w.userId = last'.auth ]_vars

C3_Witness ==
    /\ last.op = "updateWorkoutAction"
    /\ last.auth # Null
    /\ \E c \in CallsOf("updateWorkout") : ~c.threw
    /\ \E w \in workouts : /\ w.id = last.data.workoutId
                           /\ w.userId # last.auth
                           /\ w.name # last.data.name

\* C4: the workout createWorkoutAction creates is owned by the caller's userId from
\* the identity provider, whatever the input holds, a userId field included.
C4_OwnerIsAuthenticatedCaller ==
    \A c \in CallsOf("createWorkout") :
        /\ c.args.userId = last.auth
        /\ ~c.threw =>
              /\ c.ret[1].userId = last.auth
              /\ \E w \in workouts : w.id = c.ret[1].id /\ w.userId = last.auth

C4_Witness ==
    /\ last.op = "createWorkoutAction"
    /\ last.result.kind = "return"
    /\ last.result.success
    /\ Has(last.data, "userId")
    /\ last.data.userId # last.auth

\* C5: a request of a caller who is not signed in is refused, calls no data helper
\* and leaves the store as it was.
C5_UnauthenticatedRefused ==
    [][ (last'.op # "none" /\ last'.auth = Null)
        => /\ last'.calls = <<>>
           /\ last'.result \in {Throw("Unauthorized"), Failure("Unauthorized"), Redirect(HomeUrl)}
           /\ StoreUnchanged ]_vars

C5_Witness ==
    /\ last.op = "getWorkoutsForDate"
    /\ last.auth = Null
    /\ workouts # {}

\* C6: getWorkoutsByDate(userId, date) returns a workout of userId exactly when
\* its startedAt is on the UTC calendar day of date, the first and the last
\* millisecond of the day included.
C6_ExactlyTheUtcDay ==
    \A c \in CallsOf("getWorkoutsByDate") :
        ~c.threw =>
            \A w \in workouts :
                w.userId = c.args.userId =>
                    ( (\E k \in 1..Len(c.ret) : c.ret[k].id = w.id)
                      <=> DayOf(w.startedAt) = DayOf(c.args.date) )

C6_Witness ==
    /\ last.op = "getWorkoutsForDate"
    /\ last.result.kind = "return"
    /\ DayOf(NewDate(last.data.dateString)) = 0
    /\ \E w, v \in workouts :
          /\ w.userId = last.auth /\ w.startedAt = 86399999
          /\ v.userId = last.auth /\ v.startedAt = 86400000
          /\ Len(last.result.value) = 1
          /\ last.result.value[1].id = w.id

\* C7: createWorkoutAction given a name that is empty after trimming white space
\* answers 'Validation failed' and writes no row.
C7_BlankNameRejected ==
    ( /\ last.op \in {"createWorkoutAction", "createWorkoutActionRedirect"}
      /\ last.auth # Null
      /\ Has(last.data, "name")
      /\ Trim(last.data.name) = <<>>
      /\ \A i \in 1..Len(last.calls) : ~last.calls[i].threw )
    => /\ last.result.kind = "return"
       /\ ~last.result.success
       /\ last.result.error = "Validation failed"
       /\ last.calls = <<>>

\* C8: createWorkoutAction given a name of more than 100 characters answers
\* 'Validation failed' and writes nothing; a name of exactly 100 characters with a
\* valid startedAt is accepted and the row is written.
C8_NameLengthLimit ==
    [][ ( /\ last'.op = "createWorkoutAction"
          /\ last'.auth # Null
          /\ Has(last'.data, "name") )
        => /\ StrLen(last'.data.name) > 100
              => /\ last'.result.kind = "return"
                 /\ ~last'.result.success
                 /\ last'.result.error = "Validation failed"
                 /\ last'.calls = <<>>
                 /\ StoreUnchanged
           /\ ( /\ StrLen(last'.data.name) = 100
                /\ Has(last'.data, "startedAt")
                /\ last'.data.startedAt # NaN
                /\ \A i \in 1..Len(last'.calls) : ~last'.calls[i].threw )
              => /\ last'.result.kind = "return"
                 /\ last'.result.success
                 /\ \E w \in workouts' \ workouts :
                       /\ w.name = last'.data.name
                       /\ w.id = last'.result.workout.id ]_vars

C8_Witness ==
    /\ last.op = "createWorkoutAction"
    /\ last.auth # Null
    /\ Has(last.data, "name")
    /\ StrLen(last.data.name) = 101
    /\ last.result.kind = "return"
    /\ ~last.result.success
    /\ last.result.error = "Validation failed"
    /\ workouts # {}

\* C9: updateWorkoutAction for a workoutId that no workout of the caller has, be
\* the id missing or the workout another user's, answers 'Workout not found' and
\* leaves every stored workout as it was.
C9_NoMatchIsNotFound ==
    [][ ( /\ last'.op = "updateWorkoutAction"
          /\ last'.auth # Null
          /\ last'.calls # <<>>
          /\ \A i \in 1..Len(last'.calls) : ~last'.calls[i].threw
          /\ \A w \in workouts :
                w.id = last'.data.workoutId => w.userId # last'.auth )
        => /\ last'.calls[1].ret = <<>>
           /\ last'.result = Failure("Workout not found")
           /\ StoreUnchanged ]_vars

C9_Witness ==
    /\ last.op = "updateWorkoutAction"
    /\ last.auth # Null
    /\ last.result = Failure("Workout not found")
    /\ \E w \in workouts : /\ w.id = last.data.workoutId
                           /\ w.userId # last.auth
                           /\ w.name # last.data.name

\* C10: an update by the owner whose patch supplies only name succeeds and changes
\* only the name, and one whose patch supplies only startedAt succeeds and changes
\* only startedAt.
C10_PartialPatchKeepsOmittedField ==
    [][ \A w \in workouts :
          ( /\ last'.op = "updateWorkoutAction"
            /\ last'.auth = w.userId
            /\ Has(last'.data, "workoutId")
            /\ last'.data.workoutId = w.id
            /\ \A i \in 1..Len(last'.calls) : ~last'.calls[i].threw )
          => /\ ( /\ DOMAIN last'.data = {"workoutId", "name"}
                  /\ StrLen(last'.data.name) >= 1
                  /\ StrLen(last'.data.name) <= 100 )
                => /\ last'.result.kind = "return"
                   /\ last'.result.success
                   /\ [w EXCEPT !.name = last'.data.name] \in workouts'
             /\ ( /\ DOMAIN last'.data = {"workoutId", "startedAt"}
                  /\ last'.data.startedAt # NaN )
                => /\ last'.result.kind = "return"
                   /\ last'.result.success
                   /\ [w EXCEPT !.startedAt = last'.data.startedAt] \in workouts' ]_vars

\* instants of the UTC calendar day `day`: its first and last millisecond and noon
InstantsOfDay(day) == {day * 86400000 + o : o \in {0, 43200000, 86399999}}

\* C11: once createWorkoutAction has created a workout of name n and startedAt t
\* for a caller who had no workout on the UTC day of t, getWorkoutsByDate for that
\* caller and any instant of that day returns exactly the created workout, with
\* name n and startedAt t.
C11_CreatedWorkoutIsListed ==
    [][ \A u \in Users :
          ( /\ last'.op \in {"createWorkoutAction", "createWorkoutActionRedirect"}
            /\ last'.auth = u
            /\ last'.calls # <<>>
            /\ ~last'.calls[1].threw
            /\ \A w \in workouts :
                  w.userId = u => DayOf(w.startedAt) # DayOf(last'.data.startedAt) )
          => \A d \in InstantsOfDay(DayOf(last'.data.startedAt)) :
               /\ getWorkoutsByDate(u, d)' # {}
               /\ \A rows \in getWorkoutsByDate(u, d)' :
                  /\ Len(rows) = 1
                  /\ rows[1].id = last'.calls[1].ret[1].id
                  /\ rows[1].name = last'.data.name
                  /\ rows[1].startedAt = last'.data.startedAt ]_vars

C11_Witness ==
    /\ last.op = "createWorkoutAction"
    /\ last.result.kind = "return"
    /\ last.result.success
    /\ last.data.startedAt = 86399999
    /\ Cardinality(workouts) = 2
    /\ \A w \in workouts :
          w.id # last.result.workout.id
             => \/ w.userId # last.auth /\ DayOf(w.startedAt) = 0
                \/ w.userId = last.auth /\ w.startedAt = 86400000

C13_NewestFirst ==
    /\ \A c \in CallsOf("getWorkoutsByDate") :
          ~c.threw =>
             \A k \in 1..(Len(c.ret) - 1) : c.ret[k].startedAt >= c.ret[k + 1].startedAt
    /\ ( /\ last.op = "getWorkoutsForDate"
         /\ last.result.kind = "return" )
       => \A k \in 1..(Len(last.result.value) - 1) :
             last.result.value[k].startedAt >= last.result.value[k + 1].startedAt

C13_Witness ==
    /\ last.op = "getWorkoutsForDate"
    /\ last.result.kind = "return"
    /\ Len(last.result.value) = 2
    /\ last.result.value[1].startedAt = 86399999
    /\ last.result.value[2].startedAt = 0
    /\ last.result.value[1].id = "w1"

\* the calls of getWorkoutsByDate, getWorkout and getWorkouts that returned
ReadCalls ==
    {c \in CallsOf("getWorkoutsByDate") \cup CallsOf("getWorkout") \cup CallsOf("getWorkouts") :
        ~c.threw}

\* the workouts a read returned
Returned(c) == {c.ret[k] : k \in 1..Len(c.ret)}

\* C14: in every workout getWorkoutsByDate, getWorkout and getWorkouts return, the
\* nested exercises are the exercises of that workout, each once and no other, in
\* ascending order of `order`, in whichever order they were inserted.
C14_ExercisesOfTheWorkoutByOrder ==
    \A c \in ReadCalls :
        \A r \in Returned(c) :
            LET own == {e \in workoutExercises : e.workoutId = r.id}
                n   == Len(r.exercises)
            IN  /\ n = Cardinality(own)
                /\ {r.exercises[i].id : i \in 1..n} = {e.id : e \in own}
                /\ \A i \in 1..n :
                      \E e \in own : /\ e.id = r.exercises[i].id
                                      /\ e.order = r.exercises[i].order
                                      /\ e.exerciseName = r.exercises[i].exerciseName
                /\ \A i, j \in 1..n :
                      i < j => r.exercises[i].order <= r.exercises[j].order

C14_Witness ==
    /\ last.op = "getWorkouts"
    /\ last.result.kind = "return"
    /\ \E k \in 1..Len(last.result.value) :
          LET es == last.result.value[k].exercises
          IN  /\ Len(es) = 2
              /\ es[1].id = "e2" /\ es[1].order = 0
              /\ es[2].id = "e1" /\ es[2].order = 1

\* C15: in every exercise nested in a workout that getWorkoutsByDate, getWorkout and
\* getWorkouts return, the nested sets are the sets of that exercise, each once and
\* no other, in ascending order of setNumber, in whichever order they were inserted.
C15_SetsOfTheExerciseBySetNumber ==
    \A c \in ReadCalls :
        \A r \in Returned(c) :
            \A x \in 1..Len(r.exercises) :
                LET own == {s \in sets : s.workoutExerciseId = r.exercises[x].id}
                    ss  == r.exercises[x].sets
                    n   == Len(ss)
                IN  /\ n = Cardinality(own)
                    /\ {ss[i] : i \in 1..n} = own
                    /\ \A i, j \in 1..n : i < j => ss[i].setNumber <= ss[j].setNumber

C15_Witness ==
    /\ last.op = "getWorkout"
    /\ last.result.kind = "return"
    /\ Len(last.result.value) = 1
    /\ Len(last.result.value[1].exercises) = 1
    /\ LET ss == last.result.value[1].exercises[1].sets
       IN  /\ Len(ss) = 2
           /\ ss[1].id = "s2" /\ ss[1].setNumber = 1
           /\ ss[2].id = "s1" /\ ss[2].setNumber = 2

\* C16: getWorkoutsByDate depends on its date only through the UTC calendar day:
\* on one store, for one user, the results it may return for two instants of the
\* same UTC day are the same, and what it returned for the instant it was called
\* with is a result for every other instant of that day.
C16_OnlyTheUtcDayCounts ==
    \A c \in CallsOf("getWorkoutsByDate") :
        ~c.threw =>
            \A d2 \in InstantsOfDay(DayOf(c.args.date)) :
                /\ c.ret \in getWorkoutsByDate(c.args.userId, d2)
                /\ getWorkoutsByDate(c.args.userId, d2)
                      = getWorkoutsByDate(c.args.userId, c.args.date)

C16_Witness ==
    /\ last.op = "getWorkoutsForDate"
    /\ last.result.kind = "return"
    /\ NewDate(last.data.dateString) = 86399999
    /\ Len(last.result.value) = 1
    /\ last.result.value[1].startedAt = 0
    /\ \E w \in workouts : w.userId = last.auth /\ w.startedAt = 86400000

\* the fields of `data` that break their constraint: a name that is empty or longer
\* than 100 characters, a startedAt that is not a valid date, an empty workoutId
ViolatingFields(op, data) ==
    {f \in DOMAIN data :
        \/ f = "name" /\ (StrLen(data.name) = 0 \/ StrLen(data.name) > 100)
        \/ f = "startedAt" /\ data.startedAt = NaN
        \/ f = "workoutId" /\ op = "updateWorkoutAction" /\ data.workoutId = ""}

\* C17: createWorkoutAction and updateWorkoutAction, called by a signed-in caller
\* with a field that breaks its constraint, return the failure 'Validation failed'
\* with an issue for each such field, call no data helper and leave the store as
\* it was.
C17_InvalidFieldIsValidationFailed ==
    [][ ( /\ last'.op \in {"createWorkoutAction", "createWorkoutActionRedirect",
                           "updateWorkoutAction"}
          /\ last'.auth # Null
          /\ ViolatingFields(last'.op, last'.data) # {} )
        => /\ last'.result.kind = "return"
           /\ ~last'.result.success
           /\ last'.result.error = "Validation failed"
           /\ \A f \in ViolatingFields(last'.op, last'.data) :
                 \E i \in 1..Len(last'.result.issues) : last'.result.issues[i].path = f
           /\ last'.calls = <<>>
           /\ StoreUnchanged ]_vars

C17_Witness ==
    /\ last.op = "updateWorkoutAction"
    /\ last.auth # Null
    /\ Has(last.data, "workoutId")
    /\ last.data.workoutId = ""
    /\ last.result.kind = "return"
    /\ last.result.error = "Validation failed"
    /\ \E w \in workouts : w.userId = last.auth

\* C18: when the database fails during an operation, the operation returns a
\* generic failure to its caller ('Failed to create workout' from a create,
\* 'Failed to update workout' from an update) and the error the store threw does
\* not reach the caller.
C18_StoreFailureIsGeneric ==
    (\E i \in 1..Len(last.calls) : last.calls[i].threw)
    => /\ last.result.kind = "return"
       /\ ~last.result.success
       /\ last.op \in {"createWorkoutAction", "createWorkoutActionRedirect"}
             => last.result.error = "Failed to create workout"
       /\ last.op = "updateWorkoutAction"
             => last.result.error = "Failed to update workout"

\* every exercise is of a stored workout and every set of a stored exercise
NoOrphans ==
    /\ \A e \in workoutExercises : \E w \in workouts : w.id = e.workoutId
    /\ \A x \in sets : \E e \in workoutExercises : e.id = x.workoutExerciseId

\* C19: a step that deletes a workout removes every exercise of it and every set of
\* those exercises and nothing of another workout, and after every step each
\* exercise references a stored workout and each set a stored exercise.
C19_DeleteCascades ==
    [][ /\ NoOrphans'
        /\ \A w \in workouts :
              IF \E v \in workouts' : v.id = w.id
              THEN \A e \in workoutExercises :
                      e.workoutId = w.id =>
                         /\ e \in workoutExercises'
                         /\ \A x \in sets : x.workoutExerciseId = e.id => x \in sets'
              ELSE \A e \in workoutExercises :
                      e.workoutId = w.id =>
                         /\ e \notin workoutExercises'
                         /\ \A x \in sets : x.workoutExerciseId = e.id => x \notin sets'
      ]_vars

\* w1 with its exercise e1 and the set s1 of e1 were deleted; w2 keeps e2 and s2
C19_Witness ==
    /\ {w.id : w \in workouts} = {"w2"}
    /\ {e.id : e \in workoutExercises} = {"e2"}
    /\ {x.id : x \in sets} = {"s2"}
    /\ \A e \in workoutExercises : e.workoutId = "w2"
    /\ \A x \in sets : x.workoutExerciseId = "e2"

\* the rows of user u: the workouts u owns, their exercises and the sets of those
OwnData(u) ==
    LET ws == {w \in workouts : w.userId = u}
        es == {e \in workoutExercises : \E w \in ws : e.workoutId = w.id}
        xs == {x \in sets : \E e \in es : x.workoutExerciseId = e.id}
    IN  [workouts |-> ws, workoutExercises |-> es, sets |-> xs]

\* what the three read helpers may return to user u, for every argument
Views(u) ==
    [byDate |-> [d \in DataTimestamps |-> getWorkoutsByDate(u, d)],
     byId   |-> [i \in DataWorkoutIds |-> getWorkout(i, u)],
     all    |-> getWorkouts(u)]

\* C20: no read leaks across users.  A step that leaves the rows of user A as they
\* were, whatever it does to the rows of another user, leaves every result that
\* getWorkoutsByDate, getWorkout and getWorkouts may return to A as it was; and
\* what a read returns to A holds rows of A only, at every level of nesting.
C20_ReadsSeeOwnDataOnly ==
    [][ /\ \A a \in Users :
              ( /\ <<workouts, workoutExercises, sets>>' # <<workouts, workoutExercises, sets>>
                /\ OwnData(a)' = OwnData(a) )
              => Views(a)' = Views(a)
        /\ \A a \in Users :
              ( /\ last'.op \in {"getWorkoutsByDate", "getWorkout", "getWorkouts"}
                /\ last'.auth = a )
              => \A k \in 1..Len(last'.result.value) :
                    LET r == last'.result.value[k]
                    IN  /\ r.userId = a
                        /\ \A i \in 1..Len(r.exercises) :
                              /\ \E e \in OwnData(a).workoutExercises :
                                    e.id = r.exercises[i].id
                              /\ \A j \in 1..Len(r.exercises[i].sets) :
                                    r.exercises[i].sets[j] \in OwnData(a).sets
      ]_vars

C20_Witness ==
    /\ last.op = "getWorkouts"
    /\ last.auth = "user_a"
    /\ Len(last.result.value) = 1
    /\ Len(last.result.value[1].exercises) = 1
    /\ \E w \in workouts :
          /\ w.userId = "user_b"
          /\ \E e \in workoutExercises :
                /\ e.workoutId = w.id
                /\ \E x \in sets : x.workoutExerciseId = e.id

\* C26: createWorkoutAction and updateWorkoutAction ask who the caller is before
\* they validate the input: a caller who is not signed in gets 'Unauthorized' for
\* every input, valid or not, and never the issues of a validation.
C26_AuthBeforeValidation ==
    ( /\ last.op \in {"createWorkoutAction", "createWorkoutActionRedirect",
                       "updateWorkoutAction"}
      /\ last.auth = Null )
    => /\ last.result = Failure("Unauthorized")
       /\ ~Has(last.result, "issues")
       /\ last.calls = <<>>

C26_Witness ==
    /\ last.op = "createWorkoutAction"
    /\ last.auth = Null
    /\ createWorkoutSchema(last.data) # <<>>
    /\ last.result = Failure("Unauthorized")
    /\ workouts # {}

\* C22: every server action ends by returning a value to the client and none ends
\* in redirect(); a createWorkoutAction that has created its workout returns a
\* result with success true and a redirectUrl.
C22_ActionsReturnNeverRedirect ==
    /\ last.op \in {"getWorkoutsForDate", "createWorkoutAction",
                     "createWorkoutActionRedirect", "createWorkoutForm",
                     "updateWorkoutAction"}
          => last.result.kind # "redirect"
    /\ ( /\ last.op \in {"createWorkoutAction", "createWorkoutActionRedirect"}
         /\ \E c \in CallsOf("createWorkout") : ~c.threw )
       => /\ last.result.kind = "return"
          /\ last.result.success
          /\ Has(last.result, "redirectUrl")

\* C23: every server action validates its arguments before it calls the data
\* layer, so no data helper is called with an invalid argument; getWorkoutsForDate
\* given a string that is not a date does not call getWorkoutsByDate.
C23_OnlyValidArgumentsReachTheDataLayer ==
    /\ \A c \in CallsOf("getWorkoutsByDate") : IsValidDate(c.args.date)
    /\ \A c \in CallsOf("createWorkout") :
          /\ StrLen(c.args.name) \in 1..100
          /\ IsValidDate(c.args.startedAt)
    /\ \A c \in CallsOf("updateWorkout") :
          /\ c.args.workoutId # ""
          /\ StrLen(c.args.data.name) \in 1..100
          /\ IsValidDate(c.args.data.startedAt)
    /\ ( /\ last.op = "getWorkoutsForDate"
         /\ ~IsValidDate(NewDate(last.data.dateString)) )
       => last.calls = <<>>

\* the workout a successful updateWorkoutAction has just updated, as it was
\* before the update
Updated(w) ==
    /\ last'.op = "updateWorkoutAction"
    /\ last'.result.kind = "return"
    /\ last'.result.success
    /\ w.id = last'.data.workoutId
    /\ w.userId = last'.auth

\* C27: after a successful updateWorkoutAction by the owner that moves startedAt
\* from UTC day D1 to a different UTC day D2, getWorkoutsByDate for D1 no longer
\* includes the workout and getWorkoutsByDate for D2 includes it exactly once, with
\* its exercises and sets as they were before the update.
C27_MovedWorkoutChangesDay ==
    [][ \A w \in workouts :
          ( /\ Updated(w)
            /\ DayOf(w.startedAt) # DayOf(last'.data.startedAt) )
          => \A u \in {w.userId}, d1 \in {w.startedAt}, d2 \in {last'.data.startedAt} :
               /\ \A rows \in getWorkoutsByDate(u, d1)' :
                     \A i \in 1..Len(rows) : rows[i].id # w.id
               /\ getWorkoutsByDate(u, d2)' # {}
               /\ \A rows \in getWorkoutsByDate(u, d2)' :
                     /\ Cardinality({i \in 1..Len(rows) : rows[i].id = w.id}) = 1
                     /\ \A i \in 1..Len(rows) :
                           rows[i].id = w.id
                              => \E before \in WithExercises(w) :
                                    rows[i].exercises = before.exercises ]_vars

C27_Witness ==
    /\ last.op = "updateWorkoutAction"
    /\ last.result.kind = "return"
    /\ last.result.success
    /\ last.data.startedAt = MsPerDay
    /\ \E c \in CallsOf("updateWorkout") : c.ret # <<>>
    /\ \E w \in workouts :
          /\ w.id # last.data.workoutId /\ w.userId = last.auth /\ w.startedAt = 0
    /\ \E e \in workoutExercises :
          /\ e.workoutId = last.data.workoutId
          /\ \E x \in sets : x.workoutExerciseId = e.id

\* C28: a successful updateWorkoutAction changes only the name and startedAt of
\* the one workout of the given id that the caller owns: that workout's id, owner
\* and completion timestamp, its exercises and sets, and every other workout are
\* as they were.
C28_UpdateChangesNameAndStartOfOneWorkout ==
    [][ ( /\ last'.op = "updateWorkoutAction"
          /\ last'.result.kind = "return"
          /\ last'.result.success )
        => /\ \E w \in workouts :
                /\ Updated(w)
                /\ workouts' = (workouts \ {w}) \cup
                        {[id |-> w.id, userId |-> w.userId, name |-> last'.data.name,
                          startedAt |-> last'.data.startedAt,
                          completedAt |-> w.completedAt]}
           /\ workoutExercises' = workoutExercises
           /\ sets' = sets ]_vars

C28_Witness ==
    /\ last.op = "updateWorkoutAction"
    /\ last.result.kind = "return"
    /\ last.result.success
    /\ Cardinality({w \in workouts : w.userId = last.auth}) = 2
    /\ \E w \in workouts : w.userId = last.auth /\ w.name = ShortName /\ w.startedAt = 0
    /\ \E w \in workouts : /\ w.id = last.data.workoutId
                            /\ w.name = LongestName /\ w.startedAt = MsPerDay
    /\ \E e \in workoutExercises : e.workoutId = last.data.workoutId
    /\ sets # {}

\* C24: in DashboardClient, once no fetch is on its way, the workouts displayed
\* are a result fetched for the date that is selected: a late response for a date
\* selected before never replaces the list of the current date.
C24_DisplayedListIsOfTheSelectedDate ==
    ( /\ dashboard.mounted
      /\ \A i \in 1..Len(fetches) : fetches[i].status = "done"
      /\ fetches[Len(fetches)].outcome.kind = "return" )
    => \E i \in 1..Len(fetches) :
          /\ fetches[i].dateString = fetches[Len(fetches)].dateString
          /\ fetches[i].outcome.kind = "return"
          /\ dashboard.workouts = fetches[i].outcome.value

\* C29: in DashboardClient, isLoading is true whenever a getWorkoutsForDate call
\* is on its way and false once every call has ended, in success or in failure.
C29_LoadingWhileAFetchIsOnItsWay ==
    dashboard.mounted
       => (dashboard.isLoading <=> \E i \in 1..Len(fetches) : fetches[i].status # "done")

\* C25: for every time zone of the browser and every startedAt, when the dashboard
\* is opened with the redirectUrl of a successful createWorkoutAction, the date
\* DashboardClient sends to getWorkoutsForDate is of the UTC day of startedAt, so
\* that the created workout is listed.
C25_RedirectSelectsTheDayOfStartedAt ==
    [][ ( /\ last.op = "createWorkoutAction"
          /\ ~dashboard.mounted
          /\ dashboard'.mounted )
        => DayOf(NewDate(fetches'[Len(fetches')].dateString)) = DayOf(last.data.startedAt) ]_vars

\* the outcome is a returned failure or a thrown error
Failed(outcome) ==
    \/ outcome.kind = "throw"
    \/ outcome.kind = "return" /\ ~outcome.success

\* C30: in EditWorkoutForm and CreateWorkoutClient a submission sets isSubmitting,
\* which disables the submit control, so each form has at most one action call on
\* its way; when a call ends in a returned failure or a thrown error isSubmitting
\* is false again (and the error of EditWorkoutForm is set): a form that is
\* submitting and still shown has a call on its way.
C30_FormIsNeverStuckSubmitting ==
    [][ \A f \in {"edit", "create"} :
          /\ Len(forms'[f].calls) <= 1
          /\ forms'[f].calls # <<>> => forms'[f].shown
          /\ (forms'[f].isSubmitting /\ ~forms'[f].left) => forms'[f].calls # <<>>
          /\ \A i \in 1..Len(forms[f].calls) :
                ( /\ forms'[f].calls = Without(forms[f].calls, i)
                  /\ Failed(forms[f].calls[i].outcome) )
                => /\ ~forms'[f].isSubmitting
                   /\ ~forms'[f].left
                   /\ f = "edit" => forms'[f].error # <<>> ]_vars

\* EditWorkoutForm alone has at most one call on its way, shows isSubmitting
\* while it has one, and is not submitting after a failure
EditFormIsNeverStuckSubmitting ==
    [][ /\ Len(forms'.edit.calls) <= 1
        /\ forms'.edit.calls # <<>> => forms'.edit.shown
        /\ (forms'.edit.isSubmitting /\ ~forms'.edit.left) => forms'.edit.calls # <<>>
        /\ \A i \in 1..Len(forms.edit.calls) :
              ( /\ forms'.edit.calls = Without(forms.edit.calls, i)
                /\ Failed(forms.edit.calls[i].outcome) )
              => /\ ~forms'.edit.isSubmitting
                 /\ ~forms'.edit.left
                 /\ forms'.edit.error # <<>> ]_vars

\* the table of workouts after request r has been served alone on `table`
ServedAlone(table, r) ==
    IF r.failed THEN table
    ELSE IF r.op = "create"
    THEN IF createWorkoutSchema(r.data) # <<>> THEN table
         ELSE LET used(n) == \E w \in table : w.id = "w" \o ToString(n)
                  id == "w" \o ToString(CHOOSE n \in 1..(Cardinality(table) + 1) :
                                            /\ ~used(n)
                                            /\ \A m \in 1..(n - 1) : used(m))
              IN  table \cup {[id |-> id, userId |-> r.userId, name |-> r.data.name,
                               startedAt |-> r.data.startedAt, completedAt |-> <<>>]}
    ELSE IF updateWorkoutSchema(r.data) # <<>> THEN table
         ELSE {IF w.id = r.data.workoutId /\ w.userId = r.userId
               THEN [w EXCEPT !.name = r.data.name, !.startedAt = r.data.startedAt]
               ELSE w : w \in table}

\* the table after the requests list[order[k]], .., list[order[n]] have been
\* served one after the other
RECURSIVE ServedInOrder(_, _, _, _)
ServedInOrder(table, list, order, k) ==
    IF k > Len(order) THEN table
    ELSE ServedInOrder(ServedAlone(table, list[order[k]]), list, order, k + 1)

\* the orders of n requests
Orderings(n) == {p \in [1..n -> 1..n] : \A i, j \in 1..n : i # j => p[i] # p[j]}

AllDone == \A i \in 1..Len(requests.list) : requests.list[i].pc = "done"

\* C21: for concurrent create and update requests of one user, however their
\* steps interleave, the store they leave is the store some serial order of the
\* same requests leaves; and a workout that concurrent updates wrote has its name
\* and its startedAt from the same request.
C21_ConcurrentRequestsAreSerializable ==
    /\ (requests.list # <<>> /\ AllDone)
          => \E order \in Orderings(Len(requests.list)) :
                workouts = ServedInOrder(requests.before, requests.list, order, 1)
    /\ \A w \in workouts :
          \/ requests.list = <<>>
          \/ w \in requests.before
          \/ \E i \in 1..Len(requests.list) :
                /\ requests.list[i].pc # "arrived"
                /\ requests.list[i].data.name = w.name
                /\ requests.list[i].data.startedAt = w.startedAt

C21_Witness ==
    /\ Len(requests.list) = 2
    /\ AllDone
    /\ \A i \in 1..2 :
          /\ requests.list[i].op = "update"
          /\ ~requests.list[i].failed
          /\ requests.list[i].data.workoutId = "w1"
    /\ requests.list[1].data # requests.list[2].data
    /\ \E w \in workouts :
          /\ w.id = "w1"
          /\ w.userId = requests.list[1].userId
          /\ w.name = requests.list[1].data.name
          /\ w.startedAt = requests.list[1].data.startedAt

====
